---- MODULE Spec2Model ----
\* Model of xlm's `launch` command (src/src/commands/launch.rs) and of the
\* status-window channel it drives (src/src/ui/launch.rs).
\*
\* The install root is modelled by the entries the code looks at: the
\* directory itself, the files directly under it, and the version marker
\* ("versiondata").  Strings are sequences of one-character strings so that
\* byte equality, trimming and line splitting are computed, not assumed.
\* Modelling assumption: the install root's parent is searchable, so
\* fs::exists itself never returns Err.
EXTENDS Naturals, Sequences, FiniteSets, TLC

VARIABLES
    rootExists,     \* the install directory exists
    files,          \* names of the entries directly under the install root (marker excluded)
    marker,         \* the "versiondata" entry: [kind, content]
    pc,             \* position of LaunchCommand::run
    ipc,            \* position of install_or_update_xlcore, "none" outside it
    failed,         \* the step of this run whose operation failed, or "none"
    cmd,            \* the parsed LaunchCommand (the flags the run reads) and its environment
    answer,         \* what the release source answered in this run, until the check has used the result
    fetched,        \* the remote and local sources this run has read, in order: [url, result]
    release,        \* ReleaseAssetInfo returned by the resolver, or NoRelease
    dec,            \* what the update check at launch.rs:115-177 saw and chose
    xlcore_archive, \* the lazily decoded release archive held by install_or_update_xlcore
    aria_archive,   \* the lazily decoded aria2c archive held by install_or_update_xlcore
    ui,             \* the LaunchUI value and its child process / relay thread
    sent,           \* calls of progress_msg_cb in this run, in order: [step, text]
    steps,          \* the steps of this run that have begun, in order
    app,            \* the spawned XIVLauncher process: "none", "running", "exited"
    app_env,        \* the environment the XIVLauncher process was spawned with, or NoEnv
    launch_in,      \* the launch flags of the command line and the environment of the process
    remove_result,  \* what fs::remove_dir_all returned in this run (the value `let _` discards)
    last_install,   \* the version the last Ok install left in the install root, untouched since
    win,            \* the status-window process (launch_ui_main) seen from the inside
    outcome         \* result of the run: "running", "ok", "error", "panic"

vars == <<rootExists, files, marker, pc, ipc, failed, cmd, answer, fetched, release,
          dec, xlcore_archive, aria_archive, ui, sent, steps, app, outcome,
          app_env, launch_in, remove_result, last_install, win>>

fsVars == <<rootExists, files, marker>>

\* What no step of the launch command writes: its own flags and environment,
\* and the inside of the status-window process.
constVars == <<launch_in, win>>

-----------------------------------------------------------------------------
\* Names and strings

XIVLAUNCHER_BIN_FILENAME == "XIVLauncher.Core"
ARIA2C_BIN_FILENAME == "aria2c"
\* A file that some archives carry besides the two binaries.
EXTRA_FILENAME == "libextra.so"

Names == {XIVLAUNCHER_BIN_FILENAME, ARIA2C_BIN_FILENAME, EXTRA_FILENAME}

\* Longest version string the resolver returns in the model.
MaxVerLen == 2

VerChars == {"1", "2", "\n"}

\* Version strings: a digit, optionally followed by more characters (a web
\* release's `version` file usually ends in a newline).
Versions ==
    { v \in UNION { [1..n -> VerChars] : n \in 1..MaxVerLen } :
        /\ v[1] = "1" \/ (Len(v) = 1 /\ v[1] = "2")
        /\ \A i \in 2..Len(v) : v[i] = "\n" }

IsSpace(c) == c = "\n" \/ c = " "

RECURSIVE TrimStart(_)
TrimStart(s) == IF s # <<>> /\ IsSpace(Head(s)) THEN TrimStart(Tail(s)) ELSE s

RECURSIVE TrimEnd(_)
TrimEnd(s) ==
    IF s # <<>> /\ IsSpace(s[Len(s)]) THEN TrimEnd(SubSeq(s, 1, Len(s) - 1)) ELSE s

\* str::trim
Trim(s) == TrimEnd(TrimStart(s))

-----------------------------------------------------------------------------
\* The version marker and fs::read_to_string

NoMarker == [kind |-> "absent", content |-> <<>>]
TextMarker(v) == [kind |-> "text", content |-> v]

\* Entries at the marker's path that read_to_string cannot return: a file the
\* process may not open, a file that is not UTF-8, a directory.
UnreadableKinds == {"denied", "badutf8", "isdir"}

MarkerStates ==
    {NoMarker} \cup { TextMarker(v) : v \in Versions \cup {<<>>} }
               \cup { [kind |-> k, content |-> <<>>] : k \in UnreadableKinds }

\* fs::read_to_string(install_directory.join("versiondata"))
ReadToString(root, m) ==
    IF ~root \/ m.kind = "absent" THEN [ok |-> FALSE, kind |-> "NotFound", val |-> <<>>]
    ELSE IF m.kind = "text" THEN [ok |-> TRUE, kind |-> "Ok", val |-> m.content]
    ELSE IF m.kind = "denied" THEN [ok |-> FALSE, kind |-> "PermissionDenied", val |-> <<>>]
    ELSE IF m.kind = "badutf8" THEN [ok |-> FALSE, kind |-> "InvalidData", val |-> <<>>]
    ELSE [ok |-> FALSE, kind |-> "IsADirectory", val |-> <<>>]

\* fs::exists(install_directory.join(name))
Exists(root, fs, name) == root /\ name \in fs

-----------------------------------------------------------------------------
\* Release Resolver (ReleaseAssetInfo)

\* A resolver call that failed: the anyhow error it returned.
ResolveError(kind) == [ok |-> FALSE, download_url |-> <<>>, version |-> <<>>, err |-> kind]

NoRelease == ResolveError("none")

RELEASE_ASSET == "XIVLauncher.Core.tar.gz"
OTHER_ASSET == "other.tar.gz"
XIVLAUNCHER_VERSION_REMOTE_FILENAME == "version"

\* The request the resolver has not made yet.
NoAnswer == [src |-> "none"]

\* An asset of a GitHub release.
Asset(n) == [name |-> n, browser_download_url |-> <<"github", n>>]

\* What the GitHub API answers for get_latest(): an error, or a release with
\* a tag and a list of assets.
GithubAnswers ==
    {[src |-> "github", err |-> TRUE, tag_name |-> <<>>, assets |-> <<>>]} \cup
    [src : {"github"}, err : {FALSE}, tag_name : {v \in Versions : Trim(v) = v},
     assets : {<<>>, <<Asset(RELEASE_ASSET)>>, <<Asset(OTHER_ASSET)>>,
               <<Asset(OTHER_ASSET), Asset(RELEASE_ASSET)>>}]

\* from_github without the comparison of names: the first asset is taken.
FromGithubFirstAsset(api, release_asset) ==
    IF api.err THEN ResolveError("ReleaseNotFound")
    ELSE IF api.assets # <<>>
         THEN [ok |-> TRUE, download_url |-> api.assets[1].browser_download_url,
               version |-> api.tag_name, err |-> "none"]
         ELSE ResolveError("AssetNotFound")

\* ReleaseAssetInfo::from_github: assets.into_iter().find(..) takes the first
\* asset whose name is release_asset.
FromGithub(api, release_asset) ==
    IF api.err THEN ResolveError("ReleaseNotFound")
    ELSE LET hits == { i \in 1..Len(api.assets) : api.assets[i].name = release_asset }
         IN IF hits # {}
            THEN LET first == CHOOSE i \in hits : \A j \in hits : i <= j
                 IN [ok |-> TRUE, download_url |-> api.assets[first].browser_download_url,
                     version |-> api.tag_name, err |-> "none"]
            ELSE ResolveError("AssetNotFound")

\* What the web server answers for GET {base}/version: a transport error, or
\* a status and a body.
WebAnswers ==
    {[src |-> "web", err |-> TRUE, success |-> FALSE, body |-> <<>>]} \cup
    [src : {"web"}, err : {FALSE}, success : {FALSE}, body : {<<>>}] \cup
    [src : {"web"}, err : {FALSE}, success : {TRUE}, body : Versions]

\* base_url.join(name)
Join(name) == <<"web", name>>

\* from_url without the test of the status.
FromUrlNoStatusCheck(resp, release_asset) ==
    IF resp.err THEN ResolveError("Transport")
    ELSE [ok |-> TRUE, download_url |-> Join(release_asset), version |-> resp.body,
          err |-> "none"]

\* ReleaseAssetInfo::from_url: the body is used as returned by response.text()
FromUrl(resp, release_asset) ==
    IF resp.err THEN ResolveError("Transport")
    ELSE IF ~resp.success THEN ResolveError("Status")
    ELSE [ok |-> TRUE, download_url |-> Join(release_asset), version |-> resp.body,
          err |-> "none"]

\* The request a resolver call makes, with its result.
ResolverFetch(a) ==
    [url |-> IF a.src = "web" THEN Join(XIVLAUNCHER_VERSION_REMOTE_FILENAME)
             ELSE <<"github-api", "releases/latest">>,
     result |-> IF a.err THEN (IF a.src = "web" THEN "transport_err" ELSE "api_err")
                ELSE IF a.src = "web" /\ ~a.success THEN "http_err" ELSE "ok"]

-----------------------------------------------------------------------------
\* Archives.  Archive::new(GzDecoder::new(..)) decodes nothing until unpack,
\* so bytes that are no gzip'd tar (an HTTP error page, a truncated download)
\* are found out only by unpack.

NoArchive == [held |-> FALSE, valid |-> FALSE, names |-> {}]
Garbage == [held |-> TRUE, valid |-> FALSE, names |-> {}]
Tarball(ns) == [held |-> TRUE, valid |-> TRUE, names |-> ns]

\* Release archives a server can return.
ReleaseArchives ==
    {Garbage} \cup { Tarball(ns) : ns \in SUBSET {XIVLAUNCHER_BIN_FILENAME, EXTRA_FILENAME} }

\* aria2c archives a URL or a local file can hold.
AriaArchives == {Garbage, Tarball({}), Tarball({ARIA2C_BIN_FILENAME})}

\* The tarball compiled into the binary.
EMBEDDED_ARIA2C_TARBALL == Tarball({ARIA2C_BIN_FILENAME})

AriaSources == {"Embedded", "Url", "File"}

\* The --aria-source url and the --aria-source file path
ARIA_URL == <<"aria2c-url">>
ARIA_PATH == <<"aria2c-path">>

\* reqwest::get(url).await? followed by response.bytes().await?: an Err when
\* the transfer fails, else the body, whatever the status of the response
\* (the body of an error response is no archive).
HttpGet(archives) ==
    {[result |-> "transport_err", got |-> NoArchive],
     [result |-> "http_err", got |-> Garbage]} \cup
    { [result |-> "ok", got |-> a] : a \in archives }

\* fs::read(path): an Err, or the bytes of the file.
FsRead(archives) ==
    {[result |-> "read_err", got |-> NoArchive]} \cup
    { [result |-> "ok", got |-> a] : a \in archives }

-----------------------------------------------------------------------------
\* Progress texts (sequences of chunks; a "\n" chunk is a line feed)

FirstProgressText(is_update, version) ==
    IF is_update THEN <<"Downloading XIVLauncher (v">> \o version \o <<")">>
    ELSE <<"Updating XIVLauncher (v">> \o version \o <<")">>

\* writeln!(stdin, "{msg}"): the text, then a line feed.
WriteLn(msg) == msg \o <<"\n">>

-----------------------------------------------------------------------------
\* LaunchUI

NoUI == [state |-> "unopened", child |-> "none", worker |-> "none",
         queue |-> <<>>, written |-> <<>>, killSent |-> FALSE]

\* A LaunchUI::new that does not look at SNAP.
LaunchUINewIgnoringSnap(snap) ==
    [state |-> "open", child |-> "running", worker |-> "running",
     queue |-> <<>>, written |-> <<>>, killSent |-> FALSE]

\* LaunchUI::new
LaunchUINew(snap) ==
    IF snap THEN [NoUI EXCEPT !.state = "disabled"]
    ELSE [state |-> "open", child |-> "running", worker |-> "running",
          queue |-> <<>>, written |-> <<>>, killSent |-> FALSE]

\* tx.send(..) fails once the relay thread, which owns the receiver, is gone.
SendFails(u) == u.state = "open" /\ u.worker # "running"

\* LaunchUI::set_progress_text on a handle whose relay thread is alive; a
\* disabled handle ignores the text.
SetProgressText(u, text) ==
    IF u.state = "open" THEN [u EXCEPT !.queue = Append(@, text)] ELSE u

\* impl Drop for LaunchUI: child.kill().  Dropping the handle also drops tx.
DropLaunchUINoKill(u) ==
    IF u.state = "open" THEN [u EXCEPT !.state = "dropped"] ELSE u

DropLaunchUI(u) ==
    IF u.state = "open"
    THEN [u EXCEPT !.state = "dropped", !.killSent = TRUE,
                   !.child = IF @ = "running" THEN "killed" ELSE @]
    ELSE u

-----------------------------------------------------------------------------
\* The update check of LaunchCommand::run

NotRead == [ok |-> FALSE, kind |-> "NotRead", val |-> <<>>]
NoDecision == [made |-> FALSE, xl_installed |-> FALSE, read |-> NotRead, action |-> "none"]

\* A check that reads the marker before it looks at the flag.
MarkerReadAlways(xl_installed, skip_update, root, m) == ReadToString(root, m)

\* The marker is read only when the first test fails.
MarkerRead(xl_installed, skip_update, root, m) ==
    IF xl_installed /\ skip_update THEN NotRead ELSE ReadToString(root, m)

\* An update check that takes every readable marker as out of date.
UpdateCheckNeverCurrent(xl_installed, skip_update, rd, remote) ==
    IF xl_installed /\ skip_update THEN "launch"
    ELSE IF rd.ok THEN "update"
         ELSE IF rd.kind = "NotFound" THEN "install" ELSE "launch"

\* An update check in which skip_update alone decides.
UpdateCheckSkipFirst(xl_installed, skip_update, rd, remote) ==
    IF skip_update THEN "launch"
    ELSE IF rd.ok
         THEN IF xl_installed /\ rd.val = remote THEN "launch" ELSE "update"
         ELSE IF rd.kind = "NotFound" THEN "install" ELSE "launch"

\* An update check that compares the versions after trimming them.
UpdateCheckTrimmed(xl_installed, skip_update, rd, remote) ==
    IF xl_installed /\ skip_update THEN "launch"
    ELSE IF rd.ok
         THEN IF xl_installed /\ Trim(rd.val) = Trim(remote) THEN "launch" ELSE "update"
         ELSE IF rd.kind = "NotFound" THEN "install" ELSE "launch"

\* launch.rs:116-177: "launch" (nothing to do, or the read error was only
\* logged), "update" (is_update = true) or "install" (is_update = false).
UpdateCheck(xl_installed, skip_update, rd, remote) ==
    IF xl_installed /\ skip_update THEN "launch"
    ELSE IF rd.ok
         THEN IF xl_installed /\ rd.val = remote THEN "launch" ELSE "update"
         ELSE IF rd.kind = "NotFound" THEN "install" ELSE "launch"

-----------------------------------------------------------------------------
\* The environment of the launched process

\* An environment variable: unset, set to a string, or set to bytes that are
\* not valid Unicode.
Unset == [set |-> FALSE, unicode |-> TRUE, val |-> ""]
Str(v) == [set |-> TRUE, unicode |-> TRUE, val |-> v]
NotUnicode(v) == [set |-> TRUE, unicode |-> FALSE, val |-> v]

\* No process, no environment.
NoEnv == [LD_PRELOAD |-> Unset, XL_PRELOAD |-> Unset, XL_SECRET_PROVIDER |-> Unset,
          XL_SCT |-> Unset]

\* The environments xlm is started in.
ParentEnvs ==
    [LD_PRELOAD : {Unset, Str(""), Str("overlay.so"), NotUnicode("overlay\\xFF.so")},
     XL_PRELOAD : {Unset},
     XL_SECRET_PROVIDER : {Unset, Str("KEYRING")},
     XL_SCT : {Unset, Str("1")}]

LaunchInputs ==
    [use_fallback_secret_provider : BOOLEAN, run_as_steam_compat_tool : BOOLEAN,
     env : ParentEnvs]

\* The flags' defaults (launch.rs:70-81), under Steam with its overlay preloaded.
DefaultLaunchInput ==
    [use_fallback_secret_provider |-> FALSE, run_as_steam_compat_tool |-> TRUE,
     env |-> [NoEnv EXCEPT !.LD_PRELOAD = Str("overlay.so")]]

\* env::var(name).unwrap_or_default(): the value when the variable is set and
\* is valid Unicode, the empty string otherwise.
EnvVarOrDefault(v) == IF v.set /\ v.unicode THEN v.val ELSE ""

\* launch.rs:180-188: the Command inherits the environment of xlm, with the
\* variables given to env() set and the one given to env_remove() taken out.
LaunchEnv(in) ==
    [in.env EXCEPT
        !.XL_SECRET_PROVIDER = IF in.use_fallback_secret_provider THEN Str("FILE") ELSE @,
        !.XL_SCT = IF in.run_as_steam_compat_tool THEN Str("1") ELSE @,
        !.XL_PRELOAD = Str(EnvVarOrDefault(in.env.LD_PRELOAD)),
        !.LD_PRELOAD = Unset]

-----------------------------------------------------------------------------
\* The status-window process: launch_ui_main

\* Most lines the model writes to the stdin of a status window run on its own.
MaxFeed == 2

\* The process does not exist (the launch command sees it only as ui.child).
NoWindow == [proc |-> "none"]

\* ui/launch.rs:68-69: the process has started, progress_text is String::new().
StartedWindow ==
    [proc |-> "running", stdin |-> <<>>, open |-> TRUE, progress_text |-> <<>>,
     shown |-> <<>>, got_line |-> FALSE, last_line |-> <<>>, fed |-> 0]

\* The place of the first line feed in s, 0 when there is none.
FirstLf(s) ==
    IF \E i \in 1..Len(s) : s[i] = "\n"
    THEN CHOOSE i \in 1..Len(s) : s[i] = "\n" /\ \A j \in 1..(i - 1) : s[j] # "\n"
    ELSE 0

\* BufRead::read_line at end of input or with a whole line buffered: the
\* bytes up to and including the first line feed, else all that is left.
ReadLine(s) ==
    LET n == FirstLf(s)
    IN IF n = 0 THEN [line |-> s, rest |-> <<>>]
       ELSE [line |-> SubSeq(s, 1, n), rest |-> SubSeq(s, n + 1, Len(s))]

\* The lines a reader gets out of the bytes s by calling read_line until
\* nothing is left, each without its line feed.
RECURSIVE ReadLines(_)
ReadLines(s) ==
    IF s = <<>> THEN <<>>
    ELSE LET r == ReadLine(s)
             n == Len(r.line)
         IN <<IF r.line[n] = "\n" THEN SubSeq(r.line, 1, n - 1) ELSE r.line>>
            \o ReadLines(r.rest)

-----------------------------------------------------------------------------
\* Initial states

\* No install has left a version in the install root that is still there.
NoInstall == [ok |-> FALSE, version |-> <<>>]

Commands == [skip_update : BOOLEAN, web : BOOLEAN, aria_source : AriaSources, snap : BOOLEAN]
NoCommand == [skip_update |-> FALSE, web |-> FALSE, aria_source |-> "Embedded", snap |-> FALSE]

RunIdle ==
    /\ pc = "idle"
    /\ ipc = "none"
    /\ failed = "none"
    /\ cmd = NoCommand
    /\ answer = NoAnswer
    /\ fetched = <<>>
    /\ release = NoRelease
    /\ dec = NoDecision
    /\ xlcore_archive = NoArchive
    /\ aria_archive = NoArchive
    /\ ui = NoUI
    /\ sent = <<>>
    /\ steps = <<>>
    /\ app = "none"
    /\ outcome = "running"
    /\ app_env = NoEnv
    /\ remove_result = "none"

\* The install root as the first run may find it: anything a user, an
\* earlier version or an interrupted run can have left there.
Init ==
    /\ rootExists \in BOOLEAN
    /\ files \in SUBSET Names
    /\ marker \in MarkerStates
    /\ ~rootExists => (files = {} /\ marker = NoMarker)
    /\ RunIdle
    /\ launch_in = DefaultLaunchInput
    /\ last_install = NoInstall
    /\ win = NoWindow

\* A machine on which nothing was ever installed.
InitFresh ==
    /\ rootExists = FALSE
    /\ files = {}
    /\ marker = NoMarker
    /\ RunIdle
    /\ launch_in = DefaultLaunchInput
    /\ last_install = NoInstall
    /\ win = NoWindow

\* An install root that holds an installation, and any launch flags and
\* environment.
InitLaunch ==
    /\ rootExists = TRUE
    /\ files = {XIVLAUNCHER_BIN_FILENAME, ARIA2C_BIN_FILENAME}
    /\ marker = TextMarker(<<"1">>)
    /\ RunIdle
    /\ launch_in \in LaunchInputs
    /\ last_install = NoInstall
    /\ win = NoWindow

\* A status-window process that has just been started, on a machine on
\* which xlm does nothing else.
InitUI ==
    /\ rootExists = FALSE
    /\ files = {}
    /\ marker = NoMarker
    /\ RunIdle
    /\ launch_in = DefaultLaunchInput
    /\ last_install = NoInstall
    /\ win = StartedWindow

-----------------------------------------------------------------------------
\* LaunchCommand::run

\* main(): the command line is parsed and the command starts.
StartRun ==
    /\ pc = "idle"
    /\ \E c \in Commands : cmd' = c
    /\ pc' = "resolve"
    /\ UNCHANGED <<fsVars, constVars, last_install, answer, fetched, ipc, failed,
                   release, dec, xlcore_archive, aria_archive, ui, sent, steps, app,
                   outcome, app_env, remove_result>>

\* main() returns with the result of run and the process ends: nothing of
\* the run is left but the install root.
ExitProcess ==
    /\ pc = "done"
    /\ pc' = "idle"
    /\ ipc' = "none"
    /\ failed' = "none"
    /\ cmd' = NoCommand
    /\ answer' = NoAnswer
    /\ fetched' = <<>>
    /\ release' = NoRelease
    /\ dec' = NoDecision
    /\ xlcore_archive' = NoArchive
    /\ aria_archive' = NoArchive
    /\ ui' = NoUI
    /\ sent' = <<>>
    /\ steps' = <<>>
    /\ app' = "none"
    /\ outcome' = "running"
    /\ app_env' = NoEnv
    /\ remove_result' = "none"
    /\ UNCHANGED <<fsVars, constVars, last_install>>

\* run returns (or unwinds) with `out`; launch_ui, if still alive, is dropped.
EndRun(out) ==
    /\ pc' = "done"
    /\ outcome' = out
    /\ ui' = DropLaunchUI(ui)

\* launch.rs:95-112
Resolve ==
    /\ pc = "resolve"
    /\ steps' = Append(steps, "resolve")
    /\ \E a \in IF cmd.web THEN WebAnswers ELSE GithubAnswers :
          LET r == IF cmd.web THEN FromUrl(a, RELEASE_ASSET)
                   ELSE FromGithub(a, RELEASE_ASSET)
          IN /\ answer' = a
             /\ fetched' = Append(fetched, ResolverFetch(a))
             /\ release' = r
             /\ IF r.ok
                THEN /\ pc' = "check"
                     /\ UNCHANGED <<outcome, ui, failed>>
                ELSE /\ failed' = "resolve"
                     /\ EndRun("error")
    /\ UNCHANGED <<fsVars, ipc, cmd, constVars, remove_result, last_install, app_env,
                   dec, xlcore_archive, aria_archive, sent, app>>

\* launch.rs:115-177, up to the creation of the LaunchUI
Check ==
    /\ pc = "check"
    /\ steps' = Append(steps, "check")
    /\ LET xl_installed == Exists(rootExists, files, XIVLAUNCHER_BIN_FILENAME)
           rd == MarkerRead(xl_installed, cmd.skip_update, rootExists, marker)
           action == UpdateCheck(xl_installed, cmd.skip_update, rd, release.version)
       IN /\ dec' = [made |-> TRUE, xl_installed |-> xl_installed, read |-> rd,
                     action |-> action]
          /\ pc' = IF action = "launch" THEN "launch" ELSE "open_ui"
    /\ answer' = NoAnswer              \* the response is gone by now
    /\ UNCHANGED <<fsVars, ipc, failed, cmd, constVars, remove_result, last_install, app_env,
                   fetched, release, xlcore_archive,
                   aria_archive, ui, sent, app, outcome>>

\* launch.rs:132 / 153: LaunchUI::new(), then install_or_update_xlcore(..) is
\* called and awaited.
OpenUI ==
    /\ pc = "open_ui"
    /\ steps' = Append(steps, "open_ui")
    /\ \E spawned \in BOOLEAN :
          IF cmd.snap \/ spawned
          THEN /\ ui' = LaunchUINew(cmd.snap)
               /\ pc' = "install"
               /\ ipc' = "download"
               /\ UNCHANGED outcome
          ELSE /\ EndRun("panic")       \* child.spawn().unwrap()
               /\ ipc' = ipc
    /\ UNCHANGED <<fsVars, failed, cmd, constVars, remove_result, last_install, app_env,
                   answer, fetched, release, dec, xlcore_archive, aria_archive,
                   sent, app>>

\* A call that is started but not awaited: run goes on at once.
AwaitDetached(ip) == "ok"

\* What `.await` on the call of install_or_update_xlcore yields: nothing
\* while the function runs, then its result.
\* An await whose Err is not propagated by `?`.
AwaitErrIgnored(ip) ==
    IF ip = "err" THEN "ok" ELSE IF ip \in {"ok", "panic"} THEN ip ELSE "pending"

AwaitResult(ip) == IF ip \in {"ok", "err", "panic"} THEN ip ELSE "pending"

\* launch.rs:147 / 167: `.await?` has the result of install_or_update_xlcore.
\* Ok: the match arm ends, launch_ui is dropped, run goes on to the launch.
\* Err: `?` returns it from run.  A panic unwinds run.
InstallReturn ==
    /\ pc = "install"
    /\ LET r == AwaitResult(ipc)
       IN /\ r # "pending"
          /\ IF r = "ok"
             THEN /\ pc' = "launch"
                  /\ ui' = DropLaunchUI(ui)
                  /\ outcome' = outcome
             ELSE EndRun(IF r = "panic" THEN "panic" ELSE "error")
    /\ UNCHANGED <<fsVars, ipc, failed, cmd, constVars, remove_result, last_install, app_env,
                   answer, fetched, release, dec, xlcore_archive,
                   aria_archive, sent, steps, app>>

\* launch.rs:179-189: Command::new(..).env(..).spawn()?
SpawnApp ==
    /\ pc = "launch"
    /\ steps' = Append(steps, "spawn")
    /\ \E started \in BOOLEAN :
          IF started /\ Exists(rootExists, files, XIVLAUNCHER_BIN_FILENAME)
          THEN /\ app' = "running"
               /\ app_env' = LaunchEnv(launch_in)
               /\ pc' = "wait"
               /\ UNCHANGED <<outcome, ui, failed>>
          ELSE /\ UNCHANGED <<app, app_env>>
               /\ failed' = "spawn"
               /\ EndRun("error")
    /\ UNCHANGED <<fsVars, ipc, cmd, constVars, remove_result, last_install,
                   answer, fetched, release, dec, xlcore_archive, aria_archive, sent>>

\* launch.rs:190-192: .wait().await?; Ok(())
AppExit ==
    /\ pc = "wait"
    /\ app' = "exited"
    /\ EndRun("ok")
    /\ UNCHANGED <<fsVars, ipc, failed, cmd, constVars, remove_result, last_install, app_env,
                   answer, fetched, release, dec, xlcore_archive,
                   aria_archive, sent, steps>>

-----------------------------------------------------------------------------
\* install_or_update_xlcore.  Each action is one step of the function; a step
\* that reports progress calls progress_msg_cb first, and that call panics
\* when the send fails.

InstallPcs == {"download", "aria", "remove", "create", "unpack_xl", "validate_xl",
               "unpack_aria", "validate_aria", "write_marker", "finish"}

\* The step goes on to `next`.
Goto(next) ==
    /\ ipc' = next
    /\ failed' = failed
    /\ UNCHANGED <<xlcore_archive, aria_archive>>

\* The function ends: Ok(()), an Err from `?` / bail!, or a panic.  Its
\* locals, the archives among them, are dropped.
InstallEnds(result, step) ==
    /\ ipc' = result
    /\ failed' = IF result = "err" THEN step ELSE failed
    /\ xlcore_archive' = NoArchive
    /\ aria_archive' = NoArchive

\* progress_msg_cb(text), then `Rest`, the remainder of the step.
Step(name, text, Rest) ==
    /\ steps' = Append(steps, name)
    /\ sent' = Append(sent, [step |-> name, text |-> text])
    /\ IF SendFails(ui)
       THEN /\ InstallEnds("panic", name)
            /\ UNCHANGED <<fsVars, ui, fetched>>
       ELSE /\ ui' = SetProgressText(ui, text)
            /\ Rest

\* A step that reports nothing.
QuietStep(name, Rest) ==
    /\ steps' = Append(steps, name)
    /\ UNCHANGED <<sent, ui>>
    /\ Rest

\* launch.rs:205-220
DownloadRelease ==
    /\ ipc = "download"
    /\ Step("download", FirstProgressText(dec.action = "update", release.version),
            /\ \E r \in HttpGet(ReleaseArchives) :
                  /\ fetched' = Append(fetched, [url |-> release.download_url,
                                                 result |-> r.result])
                  /\ IF r.got.held
                     THEN /\ ipc' = "aria"
                          /\ xlcore_archive' = r.got
                          /\ UNCHANGED <<aria_archive, failed>>
                     ELSE InstallEnds("err", "download")   \* reqwest::get / bytes failed
            /\ UNCHANGED fsVars)
    /\ UNCHANGED <<pc, cmd, constVars, remove_result, last_install, app_env,
                   answer, release, dec, app, outcome>>

\* launch.rs:221-240, the part after the progress text of the Url arm
FetchAria ==
    /\ \E r \in IF cmd.aria_source = "Embedded"
                THEN {[result |-> "ok", got |-> EMBEDDED_ARIA2C_TARBALL]}
                ELSE IF cmd.aria_source = "Url" THEN HttpGet(AriaArchives)
                ELSE FsRead(AriaArchives) :
          /\ fetched' = IF cmd.aria_source = "Embedded" THEN fetched
                        ELSE Append(fetched,
                                    [url |-> IF cmd.aria_source = "Url" THEN ARIA_URL
                                             ELSE ARIA_PATH,
                                     result |-> r.result])
          /\ IF r.got.held
             THEN /\ ipc' = "remove"
                  /\ aria_archive' = r.got
                  /\ UNCHANGED <<xlcore_archive, failed>>
             ELSE InstallEnds("err", "aria")    \* reqwest::get / bytes / fs::read failed
    /\ UNCHANGED fsVars

\* launch.rs:221-240 with no progress text in any arm
ResolveAriaQuiet ==
    /\ ipc = "aria"
    /\ QuietStep("aria", FetchAria)
    /\ UNCHANGED <<pc, cmd, constVars, remove_result, last_install, app_env,
                   answer, release, dec, app, outcome>>

\* launch.rs:221-240
ResolveAria ==
    /\ ipc = "aria"
    /\ IF cmd.aria_source = "Url"
       THEN Step("aria", <<"Downloading aria2c">>, FetchAria)
       ELSE QuietStep("aria", FetchAria)
    /\ UNCHANGED <<pc, cmd, constVars, remove_result, last_install, app_env,
                   answer, release, dec, app, outcome>>

\* What fs::remove_dir_all can leave behind: nothing (Ok), or, when it stops
\* at an entry it cannot remove, the directory with any part of its content.
RemoveOutcomes(root, fs, m) ==
    IF ~root THEN {[root |-> FALSE, files |-> {}, marker |-> NoMarker, result |-> "NotFound"]}
    ELSE {[root |-> FALSE, files |-> {}, marker |-> NoMarker, result |-> "Ok"]} \cup
         { [root |-> TRUE, files |-> kept, marker |-> mk, result |-> "Err"] :
             kept \in SUBSET fs, mk \in {m, NoMarker} }

\* launch.rs:243 with the error returned: fs::remove_dir_all(install_location)?
RemoveDirAllChecked ==
    /\ ipc = "remove"
    /\ QuietStep("remove",
            /\ \E o \in RemoveOutcomes(rootExists, files, marker) :
                  /\ rootExists' = o.root
                  /\ files' = o.files
                  /\ marker' = o.marker
                  /\ remove_result' = o.result
                  /\ IF o.result = "Ok" THEN Goto("create") ELSE InstallEnds("err", "remove"))
    /\ last_install' = NoInstall
    /\ UNCHANGED <<pc, cmd, constVars, app_env,
                   answer, fetched, release, dec, app, outcome>>

\* launch.rs:243: let _ = fs::remove_dir_all(install_location)
RemoveDirAll ==
    /\ ipc = "remove"
    /\ QuietStep("remove",
            /\ \E o \in RemoveOutcomes(rootExists, files, marker) :
                  /\ rootExists' = o.root
                  /\ files' = o.files
                  /\ marker' = o.marker
                  /\ remove_result' = o.result
            /\ Goto("create"))
    /\ last_install' = NoInstall
    /\ UNCHANGED <<pc, cmd, constVars, app_env,
                   answer, fetched, release, dec, app, outcome>>

\* launch.rs:244: fs::create_dir_all(install_location)?
CreateDirAll ==
    /\ ipc = "create"
    /\ QuietStep("create",
            /\ \E created \in BOOLEAN :
                  IF rootExists \/ created
                  THEN /\ rootExists' = TRUE
                       /\ Goto("unpack_xl")
                  ELSE /\ rootExists' = rootExists
                       /\ InstallEnds("err", "create")
            /\ UNCHANGED <<files, marker>>)
    /\ UNCHANGED <<pc, cmd, constVars, remove_result, last_install, app_env,
                   answer, fetched, release, dec, app, outcome>>

\* What Archive::unpack can do: write every entry and return Ok, or stop with
\* an error after writing some of them (none when the bytes are no archive).
UnpackOutcomes(archive) ==
    (IF archive.valid THEN {[ok |-> TRUE, written |-> archive.names]} ELSE {}) \cup
    { [ok |-> FALSE, written |-> w] : w \in SUBSET archive.names }

\* launch.rs:247-250
UnpackXlcore ==
    /\ ipc = "unpack_xl"
    /\ Step("unpack_xl", <<"Extracting XIVLauncher">>,
            \E o \in UnpackOutcomes(xlcore_archive) :
               /\ files' = files \cup o.written
               /\ UNCHANGED <<rootExists, marker>>
               /\ IF o.ok
                  THEN /\ ipc' = "validate_xl"
                       /\ xlcore_archive' = NoArchive       \* drop(xlcore_archive)
                       /\ UNCHANGED <<aria_archive, failed>>
                  ELSE InstallEnds("err", "unpack_xl"))
    /\ UNCHANGED <<pc, cmd, constVars, remove_result, last_install, app_env,
                   answer, fetched, release, dec, app, outcome>>

\* launch.rs:253-258 with the test left out
ValidateXlcoreUnchecked ==
    /\ ipc = "validate_xl"
    /\ Step("validate_xl", <<"Validating XIVLauncher files">>,
            /\ Goto("unpack_aria")
            /\ UNCHANGED fsVars)
    /\ UNCHANGED <<pc, cmd, constVars, remove_result, last_install, app_env,
                   answer, fetched, release, dec, app, outcome>>

\* launch.rs:251-259
ValidateXlcore ==
    /\ ipc = "validate_xl"
    /\ Step("validate_xl", <<"Validating XIVLauncher files">>,
            /\ IF Exists(rootExists, files, XIVLAUNCHER_BIN_FILENAME)
               THEN Goto("unpack_aria")
               ELSE InstallEnds("err", "validate_xl")
            /\ UNCHANGED fsVars)
    /\ UNCHANGED <<pc, cmd, constVars, remove_result, last_install, app_env,
                   answer, fetched, release, dec, app, outcome>>

\* launch.rs:262-265
UnpackAria ==
    /\ ipc = "unpack_aria"
    /\ Step("unpack_aria", <<"Unpacking aria2c">>,
            \E o \in UnpackOutcomes(aria_archive) :
               /\ files' = files \cup o.written
               /\ UNCHANGED <<rootExists, marker>>
               /\ IF o.ok
                  THEN /\ ipc' = "validate_aria"
                       /\ aria_archive' = NoArchive         \* drop(aria_archive)
                       /\ UNCHANGED <<xlcore_archive, failed>>
                  ELSE InstallEnds("err", "unpack_aria"))
    /\ UNCHANGED <<pc, cmd, constVars, remove_result, last_install, app_env,
                   answer, fetched, release, dec, app, outcome>>

\* launch.rs:268-273 with the test left out
ValidateAriaUnchecked ==
    /\ ipc = "validate_aria"
    /\ Step("validate_aria", <<"Validating aria2c files">>,
            /\ Goto("write_marker")
            /\ UNCHANGED fsVars)
    /\ UNCHANGED <<pc, cmd, constVars, remove_result, last_install, app_env,
                   answer, fetched, release, dec, app, outcome>>

\* launch.rs:266-274
ValidateAria ==
    /\ ipc = "validate_aria"
    /\ Step("validate_aria", <<"Validating aria2c files">>,
            /\ IF Exists(rootExists, files, ARIA2C_BIN_FILENAME)
               THEN Goto("write_marker")
               ELSE InstallEnds("err", "validate_aria")
            /\ UNCHANGED fsVars)
    /\ UNCHANGED <<pc, cmd, constVars, remove_result, last_install, app_env,
                   answer, fetched, release, dec, app, outcome>>

Prefixes(s) == { SubSeq(s, 1, n) : n \in 0..(Len(s) - 1) }

\* A marker write that keeps what the file held and adds the version after it.
WriteOutcomesNoTruncate(m, version) ==
    {[ok |-> FALSE, marker |-> m]} \cup
    (IF m.kind \in {"denied", "isdir"} THEN {}
     ELSE {[ok |-> TRUE, marker |-> TextMarker(m.content \o version)]})

\* File::options().write(true).create(true).truncate(true).open(..)? then
\* write_all(version.as_bytes())?: the open fails and leaves the entry alone,
\* or the file is emptied and then holds what was written before an error.
WriteOutcomes(m, version) ==
    {[ok |-> FALSE, marker |-> m]} \cup
    (IF m.kind \in {"denied", "isdir"} THEN {}
     ELSE {[ok |-> TRUE, marker |-> TextMarker(version)]} \cup
          { [ok |-> FALSE, marker |-> TextMarker(p)] : p \in Prefixes(version) })

\* launch.rs:277-284
WriteMarker ==
    /\ ipc = "write_marker"
    /\ Step("write_marker", <<"Writing version data">>,
            \E o \in WriteOutcomes(marker, release.version) :
               /\ marker' = o.marker
               /\ UNCHANGED <<rootExists, files>>
               /\ IF o.ok THEN Goto("finish") ELSE InstallEnds("err", "write_marker"))
    /\ UNCHANGED <<pc, cmd, constVars, remove_result, last_install, app_env,
                   answer, fetched, release, dec, app, outcome>>

\* launch.rs:285-287
FinishUp ==
    /\ ipc = "finish"
    /\ Step("finish", <<"Finishing up">>,
            /\ InstallEnds("ok", "finish")
            /\ UNCHANGED fsVars)
    /\ last_install' = IF SendFails(ui) THEN last_install
                       ELSE [ok |-> TRUE, version |-> release.version]
    /\ UNCHANGED <<pc, cmd, constVars, remove_result, app_env,
                   answer, fetched, release, dec, app, outcome>>

-----------------------------------------------------------------------------
\* The relay thread and the status-window process

\* Whether a write to the child's stdin succeeds: it does while the child
\* runs, does not once the child has exited, and may do either between the
\* kill and the child's death.
WriteResults(child) ==
    IF child = "running" THEN {TRUE} ELSE IF child = "killed" THEN BOOLEAN ELSE {FALSE}

\* ui/launch.rs:42-46: one iteration of `for msg in rx.iter()`; writeln!
\* fails, and unwrap ends the thread, once the child no longer reads.
WorkerRelay ==
    /\ outcome = "running"
    /\ ui.worker = "running"
    /\ ui.queue # <<>>
    /\ \E wrote \in WriteResults(ui.child) :
          ui' = [ui EXCEPT !.queue = Tail(@),
                           !.written = IF wrote THEN @ \o WriteLn(Head(ui.queue)) ELSE @,
                           !.worker = IF wrote THEN "running" ELSE "panicked"]
    /\ UNCHANGED <<fsVars, pc, ipc, failed, cmd, constVars, remove_result, last_install, app_env,
                   answer, fetched, release, dec, xlcore_archive,
                   aria_archive, sent, steps, app, outcome>>

\* ui/launch.rs:43: rx.iter() ends when the sender is dropped and the queue is empty.
WorkerEnd ==
    /\ outcome = "running"
    /\ ui.worker = "running"
    /\ ui.state = "dropped"
    /\ ui.queue = <<>>
    /\ ui' = [ui EXCEPT !.worker = "done"]
    /\ UNCHANGED <<fsVars, pc, ipc, failed, cmd, constVars, remove_result, last_install, app_env,
                   answer, fetched, release, dec, xlcore_archive,
                   aria_archive, sent, steps, app, outcome>>

\* ui/launch.rs:84-115: run_simple_native returns (the window was closed) or
\* fails (unwrap), and the status-window process exits on its own.
ChildExit ==
    /\ outcome = "running"
    /\ ui.child = "running"
    /\ ui' = [ui EXCEPT !.child = "exited"]
    /\ UNCHANGED <<fsVars, pc, ipc, failed, cmd, constVars, remove_result, last_install, app_env,
                   answer, fetched, release, dec, xlcore_archive,
                   aria_archive, sent, steps, app, outcome>>

-----------------------------------------------------------------------------
Next ==
    \/ StartRun
    \/ ExitProcess
    \/ Resolve
    \/ Check
    \/ OpenUI
    \/ InstallReturn
    \/ SpawnApp
    \/ AppExit
    \/ DownloadRelease
    \/ ResolveAria
    \/ RemoveDirAll
    \/ CreateDirAll
    \/ UnpackXlcore
    \/ ValidateXlcore
    \/ UnpackAria
    \/ ValidateAria
    \/ WriteMarker
    \/ FinishUp
    \/ WorkerRelay
    \/ WorkerEnd
    \/ ChildExit

Spec == Init /\ [][Next]_vars

SpecFresh == InitFresh /\ [][Next]_vars

\* The command line of a run that goes to the launch without an install.
SkipCommand == [skip_update |-> TRUE, web |-> FALSE, aria_source |-> "Embedded",
                snap |-> FALSE]

\* Runs over an installation, with --skip-update: the launch under every
\* combination of launch flags and environment.
NextLaunch ==
    \/ StartRun /\ cmd' = SkipCommand
    \/ ExitProcess
    \/ Resolve
    \/ Check
    \/ SpawnApp
    \/ AppExit

SpecLaunch == InitLaunch /\ [][NextLaunch]_vars

-----------------------------------------------------------------------------
\* The status-window process on its own: whatever writes to its stdin, its
\* reader thread, its render loop and its end.

\* Everything but the status-window process.
commandVars == <<fsVars, pc, ipc, failed, cmd, answer, fetched, release, dec,
                 xlcore_archive, aria_archive, ui, sent, steps, app, outcome,
                 app_env, launch_in, remove_result, last_install>>

\* The versions a resolver can return.
ResolvedVersions ==
    { r.version : r \in { x \in { FromUrl(a, RELEASE_ASSET) : a \in WebAnswers } \cup
                               { FromGithub(a, RELEASE_ASSET) : a \in GithubAnswers } : x.ok } }

\* Texts that install_or_update_xlcore passes to progress_msg_cb.
ProgressTexts ==
    { FirstProgressText(u, v) : u \in BOOLEAN, v \in ResolvedVersions } \cup
    {<<"Extracting XIVLauncher">>, <<"Finishing up">>}

\* The other end of the pipe writes one text with writeln!.
WinFeed ==
    /\ win.proc = "running" /\ win.open /\ win.fed < MaxFeed
    /\ \E t \in ProgressTexts :
          win' = [win EXCEPT !.stdin = @ \o WriteLn(t), !.fed = @ + 1]
    /\ UNCHANGED commandVars

\* The other end of the pipe is closed: its owner dropped it or died.
WinCloseStdin ==
    /\ win.proc = "running" /\ win.open
    /\ win' = [win EXCEPT !.open = FALSE]
    /\ UNCHANGED commandVars

\* ui/launch.rs:75-80: one turn of the reader thread's loop.  read_line
\* returns when a line feed has arrived or the input has ended; at the end of
\* input it returns Ok(0) with the line empty, every time it is called.
WinReadLine ==
    /\ win.proc = "running"
    /\ FirstLf(win.stdin) # 0 \/ ~win.open
    /\ LET r == ReadLine(win.stdin)
       IN win' = [win EXCEPT !.stdin = r.rest,
                             !.progress_text = Trim(r.line),
                             !.got_line = @ \/ r.line # <<>>,
                             !.last_line = IF r.line # <<>> THEN Trim(r.line) ELSE @]
    /\ UNCHANGED commandVars

\* ui/launch.rs:95-114: one frame; the label shows progress_text.
WinRenderFrame ==
    /\ win.proc = "running"
    /\ win.shown # win.progress_text
    /\ win' = [win EXCEPT !.shown = win.progress_text]
    /\ UNCHANGED commandVars

\* ui/launch.rs:84-115: run_simple_native returns (the window was closed) or
\* fails (unwrap); launch_ui_main ends and with it the process.
WinClosed ==
    /\ win.proc = "running"
    /\ win' = [win EXCEPT !.proc = "exited"]
    /\ UNCHANGED commandVars

\* ui/launch.rs:62: the process is killed by the LaunchUI that started it.
WinKilled ==
    /\ win.proc = "running"
    /\ win' = [win EXCEPT !.proc = "killed"]
    /\ UNCHANGED commandVars

NextUI ==
    \/ WinFeed
    \/ WinCloseStdin
    \/ WinReadLine
    \/ WinRenderFrame
    \/ WinClosed
    \/ WinKilled

SpecUI == InitUI /\ [][NextUI]_vars

-----------------------------------------------------------------------------
\* Properties

Began(name) == \E i \in 1..Len(steps) : steps[i] = name
BeganIn(st, name) == \E i \in 1..Len(st) : st[i] = name
Last(st) == st[Len(st)]
Before(a, b) ==
    \E i, j \in 1..Len(steps) : i < j /\ steps[i] = a /\ steps[j] = b

\* install_or_update_xlcore has returned Ok(()) in this run.
InstallSucceeded == ipc = "ok"

\* C1: whenever the check finds the main executable absent, the install is
\* selected and has run to completion before the application is spawned,
\* whatever the skip-update flag and the state of the marker.
C1_InstallBeforeSpawnWhenExeAbsent ==
    (dec.made /\ ~dec.xl_installed) =>
        /\ dec.action \in {"update", "install"}
        /\ Began("spawn") => (InstallSucceeded /\ Before("finish", "spawn"))

\* C2: with the executable present, skip-update unset and the marker
\* readable, "launch" is chosen iff marker content and remote version are the
\* same string, and any difference chooses the install/update.
C2_CurrentIffByteIdentical ==
    (dec.made /\ dec.xl_installed /\ ~cmd.skip_update /\ dec.read.ok) =>
        /\ dec.action = "launch" <=> dec.read.val = release.version
        /\ dec.action = "update" <=> dec.read.val # release.version
        /\ dec.action = "launch" => ~Began("open_ui") /\ ipc = "none"
        /\ dec.action = "update" => pc = "open_ui" \/ Began("open_ui")

\* C2 witness: marker and remote version differ only by trailing whitespace
\* and the update was chosen and started.
C2_Witness ==
    /\ dec.made /\ dec.xl_installed /\ ~cmd.skip_update /\ dec.read.ok
    /\ dec.read.val # release.version
    /\ Trim(dec.read.val) = Trim(release.version)
    /\ dec.action = "update"
    /\ Began("download")

\* C3: whenever the marker exists in the install root, the main executable
\* and aria2c exist there too.
C3_MarkerImpliesInstalled ==
    (rootExists /\ marker.kind # "absent") =>
        /\ Exists(rootExists, files, XIVLAUNCHER_BIN_FILENAME)
        /\ Exists(rootExists, files, ARIA2C_BIN_FILENAME)


C6_MarkerIsResolvedVersion ==
    InstallSucceeded =>
        ReadToString(rootExists, marker) = [ok |-> TRUE, kind |-> "Ok", val |-> release.version]

\* C6 witness: a successful update over a marker that held another,
\* non-empty text.
C6_Witness ==
    /\ InstallSucceeded
    /\ dec.read.ok /\ dec.read.val # <<>> /\ dec.read.val # release.version
    /\ marker = TextMarker(release.version)

\* C7: the application is spawned only when no install is in progress, and,
\* if an install was started in the run, only after it has returned.
C7_NoLaunchDuringInstall ==
    /\ app = "running" => ipc \notin InstallPcs
    /\ Began("spawn") => ipc \in {"none", "ok"}
    /\ (Began("spawn") /\ Began("download")) => Before("finish", "spawn")
    /\ ipc \in InstallPcs => (pc = "install" /\ app = "none")

\* C7 witness: the application runs after an install of this run.
C7_Witness == app = "running" /\ ipc = "ok" /\ Before("download", "spawn")

\* C8: when a status window was opened, its child has been sent a kill by
\* the time the run is about to spawn the application and by the time the
\* run ends, however the install ended.
C8_ChannelKilledBeforeLaunchOrExit ==
    (ui.state \in {"open", "dropped"} /\ pc \in {"launch", "wait", "done"}) =>
        /\ ui.state = "dropped"
        /\ ui.killSent
        /\ ui.child # "running"

\* C8 witness: a run that opened the window and failed in an install step.
C8_Witness ==
    /\ pc = "done" /\ outcome = "error" /\ failed = "unpack_aria"
    /\ ui.state = "dropped" /\ ui.killSent

NoRetry == Cardinality({steps[i] : i \in 1..Len(steps)}) = Len(steps)

FatalSteps == {"resolve", "download", "aria", "create", "unpack_xl", "validate_xl",
               "unpack_aria", "validate_aria"}

\* C9: when one of the fatal steps fails, no step is begun after it, no
\* step is run twice, the application is not spawned, and the run ends with
\* an error.
C9_FailureEndsRun ==
    /\ NoRetry
    /\ failed \in FatalSteps =>
        /\ Last(steps) = failed
        /\ app = "none" /\ ~Began("spawn")
        /\ pc \in {"install", "done"}
        /\ pc = "install" => ipc = "err"
        /\ pc = "done" => outcome = "error"

\* C9 witness: a run ended by a failed unpack of the release archive.
C9_Witness == failed = "unpack_xl" /\ pc = "done" /\ outcome = "error"

\* C10: a marker read error other than NotFound is not absorbed: the run
\* does not go on to the launch.
C10_OnlyNotFoundAbsorbed ==
    (dec.made /\ dec.read.kind \in {"PermissionDenied", "InvalidData", "IsADirectory"}) =>
        /\ pc \notin {"launch", "wait"}
        /\ app = "none"

\* The release source's answer is one of the failures of the resolver: an
\* API error, a release without the asset, a transport error or a
\* non-success status on the version URL.
ResolverFailure(a) ==
    \/ a.src = "github" /\ (a.err \/ \A i \in 1..Len(a.assets) : a.assets[i].name # RELEASE_ASSET)
    \/ a.src = "web" /\ (a.err \/ ~a.success)

\* C11: when the release source answers with a failure, the resolve step is
\* the first and last step of the run: the run ends with an error, and from
\* the start of the run to its end the install root is not changed, no
\* archive is unpacked and no status window is opened.
C11_ResolverFailureTouchesNothing ==
    [][ /\ pc' = "resolve" => UNCHANGED fsVars
        /\ (pc = "resolve" /\ pc' # pc /\ ResolverFailure(answer')) =>
            /\ pc' = "done" /\ outcome' = "error" /\ failed' = "resolve"
            /\ UNCHANGED fsVars
            /\ steps' = <<"resolve">>
            /\ ui' = NoUI /\ sent' = <<>> /\ ipc' = "none"
        /\ failed = "resolve" =>
            /\ UNCHANGED fsVars
            /\ ui' = NoUI
            /\ steps' \in {steps, <<>>}
      ]_vars

\* C11 witness: a run over an installed root ended by a non-success status
\* on the version URL.
C11_Witness ==
    /\ pc = "done" /\ outcome = "error" /\ failed = "resolve"
    /\ answer.src = "web" /\ ~answer.err /\ ~answer.success
    /\ Exists(rootExists, files, XIVLAUNCHER_BIN_FILENAME)
    /\ marker.kind = "text"

\* C12: when reading the aria2c archive from its URL meets a transport error
\* or a non-success status, or reading it from its file fails, the function
\* has failed in that step and the delete of the install root is never begun.
C12_PayloadFailureBeforeDelete ==
    \A i \in 1..Len(fetched) :
        (fetched[i].url \in {ARIA_URL, ARIA_PATH} /\ fetched[i].result # "ok") =>
            /\ ipc = "err" /\ failed = "aria"
            /\ ~Began("remove")

\* C13: when the check finds neither the main executable nor the marker,
\* the install is chosen and the run goes on to it, with skip_update set as
\* with skip_update unset.
C13_FreshRootInstalls ==
    (dec.made /\ ~dec.xl_installed /\ dec.read.kind = "NotFound") =>
        /\ dec.action = "install"
        /\ pc = "open_ui" \/ Began("open_ui")
        /\ Began("spawn") => Before("open_ui", "spawn")

\* C13 witness: with skip_update set, the install was chosen over an install
\* root that did not exist, and the download has begun.
C13_Witness ==
    /\ cmd.skip_update
    /\ dec.made /\ ~dec.xl_installed /\ dec.read.kind = "NotFound"
    /\ dec.action = "install"
    /\ Began("download")

\* C14: when the check finds the main executable and skip_update is set, it
\* does not read the marker and chooses the launch; the step after it is
\* the spawn of the application, and in the check, in the spawn and between
\* them the install root is not changed, the install function is not
\* entered and no status window is opened.
C14_SkipWithExeDoesNoInstallWork ==
    [][ /\ (pc = "check" /\ pc' # pc /\ cmd.skip_update
              /\ Exists(rootExists, files, XIVLAUNCHER_BIN_FILENAME)) =>
            /\ dec'.read = NotRead /\ dec'.action = "launch"
            /\ pc' = "launch"
            /\ UNCHANGED fsVars
        /\ (dec.made /\ dec.xl_installed /\ cmd.skip_update) =>
            /\ ui = NoUI /\ sent = <<>> /\ ipc = "none"
            /\ pc = "launch" => steps' = Append(steps, "spawn")
            /\ pc' # "resolve" =>
                /\ UNCHANGED fsVars
                /\ ui' = NoUI /\ sent' = <<>> /\ ipc' = "none"
                /\ ~BeganIn(steps', "open_ui")
      ]_vars

\* C14 witness: the application runs in a run that skipped the update check
\* over a root whose marker cannot be read.
C14_Witness ==
    /\ dec.made /\ dec.xl_installed /\ cmd.skip_update
    /\ dec.read = NotRead
    /\ marker.kind = "denied"
    /\ steps = <<"resolve", "check", "spawn">> /\ app = "running"

\* C15: a run with skip_update set over an install root that holds the main
\* executable gets to the spawn of the application whatever the release
\* source answers.
C15_SkipLaunchesWhateverResolverSays ==
    (pc = "done" /\ cmd.skip_update /\ ~Began("open_ui")
       /\ Exists(rootExists, files, XIVLAUNCHER_BIN_FILENAME)) =>
        Began("spawn")

\* C16: a call of set_progress_text never fails, whatever the relay thread
\* and the status window have done before it: the install function never
\* ends in a panic, and a run that has entered it does not end in one.
C16_ProgressCallNeverFails ==
    /\ ipc # "panic"
    /\ Began("download") => outcome # "panic"

\* The order in which a run goes through its steps.
RunOrder ==
    <<"resolve", "check", "open_ui", "download", "aria", "remove", "create",
      "unpack_xl", "validate_xl", "unpack_aria", "validate_aria", "write_marker",
      "finish", "spawn">>

IsPrefix(s, t) == Len(s) <= Len(t) /\ s = SubSeq(t, 1, Len(s))

C18_FromGithubContract ==
    (answer.src = "github" /\ pc \in {"check", "done"}) =>
        LET A == answer.assets
            named == { i \in 1..Len(A) : A[i].name = RELEASE_ASSET }
        IN /\ answer.err => (~release.ok /\ release.err = "ReleaseNotFound")
           /\ (~answer.err /\ named = {}) => (~release.ok /\ release.err = "AssetNotFound")
           /\ (~answer.err /\ named # {}) =>
                /\ release.ok
                /\ release.version = answer.tag_name
                /\ \E i \in named : release.download_url = A[i].browser_download_url
           /\ ~release.ok => (pc = "done" /\ outcome = "error")

\* C18 witness: the asset is found behind another asset of the release.
C18_Witness ==
    /\ pc = "check" /\ answer.src = "github" /\ ~answer.err
    /\ Len(answer.assets) = 2 /\ answer.assets[1].name = OTHER_ASSET
    /\ release.ok /\ release.download_url = <<"github", RELEASE_ASSET>>

\* C19: the version a web release source resolves to is the body of the
\* version URL without its leading and trailing whitespace, and the
\* resolution has made one request, to the version URL.
C19_WebVersionTrimmedOneFetch ==
    (answer.src = "web" /\ release.ok /\ pc = "check") =>
        /\ release.version = Trim(answer.body)
        /\ fetched = <<[url |-> Join(XIVLAUNCHER_VERSION_REMOTE_FILENAME), result |-> "ok"]>>
        /\ release.download_url = Join(RELEASE_ASSET)

\* The nine steps of install_or_update_xlcore.
AlgorithmSteps == {"download", "aria", "remove", "create", "unpack_xl", "validate_xl",
                   "unpack_aria", "validate_aria", "write_marker"}

\* progress_msg_cb was called at the start of step s.
Announced(s) == \E i \in 1..Len(sent) : sent[i].step = s

\* C20 (as claimed): every one of the nine steps that has begun had a phase
\* text passed to the progress callback first.
C20_EveryStepAnnounced ==
    \A s \in AlgorithmSteps : Began(s) => Announced(s)

\* C20: of the nine steps, those that have begun and had a phase text passed
\* to the progress callback first are: download, unpack and validation of
\* the release, unpack and validation of aria2c, the marker write, and the
\* reading of the aria2c archive when it comes from a URL; the delete and
\* the re-creation of the install root never have one.  No step has two.
C20_AnnouncedSteps ==
    /\ \A i \in 1..Len(steps) :
          LET s == steps[i]
          IN s \in AlgorithmSteps =>
                (Announced(s) <=> /\ s \notin {"remove", "create"}
                                  /\ s = "aria" => cmd.aria_source = "Url")
    /\ Cardinality({sent[i].step : i \in 1..Len(sent)}) = Len(sent)
    /\ \A i \in 1..Len(sent) : sent[i].text # <<>>

\* C20 witness: an install with the embedded aria2c archive has written the
\* marker; the reading of that archive, the delete and the re-creation were
\* not announced, the marker write was.
C20_Witness ==
    /\ ipc = "ok" /\ cmd.aria_source = "Embedded"
    /\ ~Announced("aria") /\ ~Announced("remove") /\ ~Announced("create")
    /\ Announced("write_marker")

\* C21: when the extraction of the release is about to begin, the install
\* root is an empty directory: it holds no file and no marker, whatever the
\* delete before it has done.
C21_RootEmptyBeforeExtraction ==
    ipc = "unpack_xl" =>
        /\ rootExists
        /\ files = {}
        /\ marker = NoMarker

\* The install root holds what a complete install of the version v leaves.
HoldsInstall(v) ==
    /\ Exists(rootExists, files, XIVLAUNCHER_BIN_FILENAME)
    /\ Exists(rootExists, files, ARIA2C_BIN_FILENAME)
    /\ marker = TextMarker(v)

\* C22: when the install root does not exist at the delete step, the step
\* ends without an error and changes nothing, and the function goes on to
\* the create step; from there it takes its steps in order, fails only in a
\* step after the delete, and when it returns Ok the root holds both
\* binaries and the marker of the resolved version.
C22_MissingRootDeleteIsNoError ==
    [][ /\ (ipc = "remove" /\ ipc' # ipc /\ ~rootExists) =>
            /\ ipc' = "create"
            /\ remove_result' = "NotFound"
            /\ failed' = failed
            /\ UNCHANGED <<fsVars, xlcore_archive, aria_archive>>
        /\ remove_result = "NotFound" =>
            /\ IsPrefix(steps, RunOrder)
            /\ failed # "remove"
            /\ ipc = "err" => failed \in {"create", "unpack_xl", "validate_xl", "unpack_aria",
                                          "validate_aria", "write_marker"}
            /\ Began("unpack_xl") => rootExists
            /\ ipc = "ok" => HoldsInstall(release.version)
      ]_vars

\* C22 witness: an install over a root that did not exist has returned Ok
\* and the application runs.
C22_Witness ==
    /\ remove_result = "NotFound"
    /\ ipc = "ok" /\ Before("remove", "finish")
    /\ HoldsInstall(release.version)
    /\ app = "running"

\* C23: the spawned application has LD_PRELOAD unset and XL_PRELOAD set to
\* the value LD_PRELOAD has in xlm's environment (to the empty string when
\* it is unset there); XL_SECRET_PROVIDER is FILE when the fallback flag is
\* set and as in xlm's environment when it is not; XL_SCT is 1 when the
\* compatibility-tool flag is set and as in xlm's environment when it is not.
C23_LaunchEnvironment ==
    app = "running" =>
        LET parent == launch_in.env
        IN /\ ~app_env.LD_PRELOAD.set
           /\ app_env.XL_PRELOAD.set
           /\ app_env.XL_PRELOAD.val = (IF parent.LD_PRELOAD.set THEN parent.LD_PRELOAD.val
                                        ELSE "")
           /\ app_env.XL_SECRET_PROVIDER =
                 (IF launch_in.use_fallback_secret_provider THEN Str("FILE")
                  ELSE parent.XL_SECRET_PROVIDER)
           /\ app_env.XL_SCT =
                 (IF launch_in.run_as_steam_compat_tool THEN Str("1") ELSE parent.XL_SCT)

\* The texts of the progress calls of this run, in order.
SentTexts == [i \in 1..Len(sent) |-> sent[i].text]

\* C24: the lines the status window reads from what was written to its
\* stdin are the texts passed to the progress callback, one line for each
\* text, in the order of the calls.
C24_OneLinePerMessage ==
    IsPrefix(ReadLines(ui.written), SentTexts)

\* C25: in the status-window process the shared text is empty until a line
\* was received and is the trimmed last received line from then on, also
\* after the input has ended; what the window shows is empty or such a line.
C25_StatusTextIsLastLine ==
    win.proc = "running" =>
        /\ win.progress_text = (IF win.got_line THEN win.last_line ELSE <<>>)
        /\ ~win.got_line => win.shown = <<>>

\* C26: when the last Ok install left the version v in the install root,
\* the root was not touched since, and a run without skip_update resolves the
\* same v, its check chooses the launch; that run deletes nothing and writes
\* nothing in the install root, and begins no install step.
C26_SecondRunLaunchesUntouched ==
    [][ /\ (pc = "check" /\ pc' # pc /\ ~cmd.skip_update
              /\ last_install.ok /\ last_install.version = release.version) =>
            /\ dec'.action = "launch" /\ pc' = "launch"
            /\ UNCHANGED fsVars
        /\ (pc \in {"resolve", "check", "launch", "wait"} /\ ~cmd.skip_update
              /\ ipc = "none" /\ last_install.ok
              /\ (release.ok => last_install.version = release.version)) =>
            /\ UNCHANGED <<fsVars, last_install>>
            /\ ipc' = "none"
            /\ ~BeganIn(steps', "open_ui")
      ]_vars

\* C26 witness: the application runs in a run that found the installation
\* of an earlier run current; the version ends in a line feed.
C26_Witness ==
    /\ last_install.ok /\ last_install.version = release.version
    /\ release.version = <<"1", "\n">>
    /\ ~cmd.skip_update /\ dec.made /\ dec.action = "launch"
    /\ steps = <<"resolve", "check", "spawn">> /\ app = "running"

\* C27: the first progress text names what the check chose: "Updating
\* XIVLauncher" for an update (is_update = true, the marker was read),
\* "Downloading XIVLauncher" for an install (is_update = false, no marker).
C27_FirstTextNamesOperation ==
    sent # <<>> =>
        /\ sent[1].step = "download"
        /\ sent[1].text[1] = (IF dec.action = "update" THEN "Updating XIVLauncher (v"
                              ELSE "Downloading XIVLauncher (v")

====
